---- MODULE Spec2Model ----
(***************************************************************************)
(* Model of pingap's request-processing core:                              *)
(*   - http_extra/http_header.rs : convert_header_value (tag resolution)    *)
(*   - plugin/stats.rs           : Stats::handle_request and the plugin     *)
(*                                 dispatch loop that drives it             *)
(*   - cache/tiny.rs             : TinyUfoCache get/put                     *)
(* Byte strings are sequences of one-character strings; an Option<T> is    *)
(* the empty tuple (None) or a one-element tuple (Some).                   *)
(***************************************************************************)
EXTENDS Integers, Sequences, FiniteSets, TLC

VARIABLES
    \* ---- http_header.rs: one call of convert_header_value
    value,        \* the configured HeaderValue (bytes)
    session,      \* inbound request headers: header name -> Option<bytes>
    ctx,          \* the State record of the request
    env,          \* process environment: name -> Option<String>
    resolved,     \* [done, result]: the Option<HeaderValue> once returned
    \* ---- plugin pipeline
    plugins,      \* configured plugins of the location, in order
    reqPath,      \* session.req_header().uri.path()
    step,         \* index into StepOrder of the step being executed
    idx,          \* index of the next plugin to invoke at this step
    invoked,      \* history: the handle_request calls made so far
    outcome,      \* "running" | "response" | "error" | "finished"
    \* ---- cache/tiny.rs
    total_weight_limit,  \* capacity given to new_tiny_ufo_cache
    resident,            \* key -> weight of the resident entry, 0 = absent
    before,              \* resident map as it was when the last put began
    lastPut,             \* the last put call and what it returned
    lastGet,             \* the last get call and what it returned
    \* ---- http_header.rs: convert_header and convert_headers
    raw,            \* the &str given to convert_header
    parsed,         \* [done, result]: what convert_header returned
    header_values,  \* the &[String] given to convert_headers
    converted,      \* [done, result]: what convert_headers returned
    \* ---- plugin/stats.rs: construction and one handle_request call
    conf,           \* the PluginConf: its step and path fields
    stats,          \* [state, plugin, error]: what Stats::try_from returned
    lastCall        \* the last handle_request call on the built plugin

vars == <<value, session, ctx, env, resolved,
          plugins, reqPath, step, idx, invoked, outcome,
          total_weight_limit, resident, before, lastPut, lastGet,
          raw, parsed, header_values, converted, conf, stats, lastCall>>

resolveVars == <<value, session, ctx, env, resolved>>
pipelineVars == <<plugins, reqPath, step, idx, invoked, outcome>>
cacheVars == <<total_weight_limit, resident, before, lastPut, lastGet>>
parseVars == <<raw, parsed, header_values, converted>>
statsVars == <<conf, stats, lastCall>>

None == <<>>
Some(v) == <<v>>
IsSome(o) == Len(o) = 1
Unwrap(o) == o[1]

(***************************************************************************)
(* Bytes.  Visible ASCII bytes are one-character strings; ObsText is a     *)
(* byte >= 0x80 (legal inside an inbound HeaderValue, not visible ASCII),  *)
(* Ctl a control byte (never legal in a HeaderValue).                      *)
(***************************************************************************)
ObsText == "<FF>"
Ctl == "<01>"

\* http::header::value::is_visible_ascii, used by HeaderValue::to_str
is_visible_ascii(b) == b \notin {ObsText, Ctl}

\* http::header::value::is_valid, used by HeaderValue::from_str / from_bytes
is_valid(b) == b # Ctl

\* HeaderValue::from_str(s).ok()
from_str_ok(s) == IF \A i \in 1..Len(s) : is_valid(s[i]) THEN Some(s) ELSE None

\* value.to_str().unwrap_or_default()
to_str_or_default(v) ==
    IF \A i \in 1..Len(v) : is_visible_ascii(v[i]) THEN v ELSE <<>>

\* buf.starts_with(prefix)
starts_with(buf, prefix) ==
    /\ Len(buf) >= Len(prefix)
    /\ SubSeq(buf, 1, Len(prefix)) = prefix

\* &buf[n..buf.len()]
slice_from(buf, n) == SubSeq(buf, n + 1, Len(buf))

\* std::str::from_utf8(bytes).unwrap_or_default(): a lone byte >= 0x80 is
\* not UTF-8, so the whole conversion falls back to "".
from_utf8_or_default(bytes) ==
    IF \A i \in 1..Len(bytes) : bytes[i] # ObsText THEN bytes ELSE <<>>

Digit(d) ==
    CASE d = 0 -> "0" [] d = 1 -> "1" [] d = 2 -> "2" [] d = 3 -> "3"
      [] d = 4 -> "4" [] d = 5 -> "5" [] d = 6 -> "6" [] d = 7 -> "7"
      [] d = 8 -> "8" [] d = 9 -> "9"

RECURSIVE to_string(_)
\* u16 / usize Display
to_string(n) ==
    IF n < 10 THEN <<Digit(n)>> ELSE to_string(n \div 10) \o <<Digit(n % 10)>>

(***************************************************************************)
(* The tag vocabulary of http_header.rs.                                   *)
(***************************************************************************)
HOST_NAME_TAG == <<"$","h","o","s","t","n","a","m","e">>
HOST_TAG == <<"$","h","o","s","t">>
SCHEME_TAG == <<"$","s","c","h","e","m","e">>
REMOTE_ADDR_TAG == <<"$","r","e","m","o","t","e","_","a","d","d","r">>
REMOTE_PORT_TAG == <<"$","r","e","m","o","t","e","_","p","o","r","t">>
SERVER_ADDR_TAG == <<"$","s","e","r","v","e","r","_","a","d","d","r">>
SERVER_PORT_TAG == <<"$","s","e","r","v","e","r","_","p","o","r","t">>
PROXY_ADD_FORWARDED_TAG ==
    <<"$","p","r","o","x","y","_","a","d","d","_","x","_",
      "f","o","r","w","a","r","d","e","d","_","f","o","r">>
UPSTREAM_ADDR_TAG == <<"$","u","p","s","t","r","e","a","m","_","a","d","d","r">>

SCHEME_HTTPS == <<"h","t","t","p","s">>
SCHEME_HTTP == <<"h","t","t","p">>

ExactTags ==
    {HOST_TAG, SCHEME_TAG, HOST_NAME_TAG, REMOTE_ADDR_TAG, REMOTE_PORT_TAG,
     SERVER_ADDR_TAG, SERVER_PORT_TAG, UPSTREAM_ADDR_TAG,
     PROXY_ADD_FORWARDED_TAG}

(***************************************************************************)
(* Collaborators of convert_header_value.                                  *)
(***************************************************************************)
HdrHost == <<"h","o","s","t">>
HdrXForwardedFor == <<"x","-","f","o","r","w","a","r","d","e","d","-","f","o","r">>
HdrOrigin == <<"o","r","i","g","i","n">>
HeaderNames == {HdrHost, HdrXForwardedFor, HdrOrigin}

UpperCase == <<"A","B","C","D","E","F","G","H","I","J","K","L","M",
               "N","O","P","Q","R","S","T","U","V","W","X","Y","Z">>
LowerCase == <<"a","b","c","d","e","f","g","h","i","j","k","l","m",
               "n","o","p","q","r","s","t","u","v","w","x","y","z">>

ascii_lower(c) ==
    IF \E i \in 1..26 : UpperCase[i] = c
    THEN LowerCase[CHOOSE i \in 1..26 : UpperCase[i] = c]
    ELSE c

\* session.get_header(key): HeaderMap lookup, header names compare
\* case-insensitively; a name that is no header of the request gives None.
get_header(s, key) ==
    LET name == [i \in 1..Len(key) |-> ascii_lower(key[i])]
    IN  IF name \in DOMAIN s THEN s[name] ELSE None

\* util::get_host(session.req_header()): the request's effective host
get_host(s) == s[HdrHost]

\* state::get_hostname(): the proxy process's own hostname
get_hostname == <<"p","i","n","g","a","p","-","1">>

AttrConnectionId == <<"c","o","n","n","e","c","t","i","o","n","_","i","d">>

\* State::append_value(buf, key): appends the named attribute rendered as
\* text; an attribute the context does not hold leaves buf as it was.
append_value(c, buf, key) ==
    IF key = AttrConnectionId THEN buf \o to_string(c.connection_id) ELSE buf

\* std::env::var(name): Err when the variable is not set
env_var(e, name) == IF name \in DOMAIN e THEN e[name] ELSE None

HTTP_PREFIX == <<"$","h","t","t","p","_">>

\* the prefix classes with a value of no class echoed instead of dropped
convert_prefixed_echoes_literal(buf, s, c, e) ==
    IF starts_with(buf, HTTP_PREFIX)
    THEN get_header(s, from_utf8_or_default(slice_from(buf, Len(HTTP_PREFIX))))
    ELSE IF starts_with(buf, <<"$">>)
    THEN LET v == env_var(e, from_utf8_or_default(slice_from(buf, 1)))
         IN  IF IsSome(v) THEN from_str_ok(Unwrap(v)) ELSE None
    ELSE IF starts_with(buf, <<":">>)
    THEN LET v == append_value(c, <<>>, from_utf8_or_default(slice_from(buf, 1)))
         IN  IF v # <<>> THEN from_str_ok(v) ELSE None
    ELSE Some(buf)

\* the prefix classes with the ":" class lacking its is_empty test
convert_prefixed_keeps_empty(buf, s, c, e) ==
    IF starts_with(buf, HTTP_PREFIX)
    THEN get_header(s, from_utf8_or_default(slice_from(buf, Len(HTTP_PREFIX))))
    ELSE IF starts_with(buf, <<"$">>)
    THEN LET v == env_var(e, from_utf8_or_default(slice_from(buf, 1)))
         IN  IF IsSome(v) THEN from_str_ok(Unwrap(v)) ELSE None
    ELSE IF starts_with(buf, <<":">>)
    THEN from_str_ok(append_value(c, <<>>, from_utf8_or_default(slice_from(buf, 1))))
    ELSE None

\* the prefix classes with the "$" test placed before the "$http_" test
convert_prefixed_env_first(buf, s, c, e) ==
    IF starts_with(buf, <<"$">>)
    THEN LET v == env_var(e, from_utf8_or_default(slice_from(buf, 1)))
         IN  IF IsSome(v) THEN from_str_ok(Unwrap(v))
             ELSE IF starts_with(buf, HTTP_PREFIX)
             THEN get_header(s, from_utf8_or_default(slice_from(buf, Len(HTTP_PREFIX))))
             ELSE None
    ELSE IF starts_with(buf, <<":">>)
    THEN LET v == append_value(c, <<>>, from_utf8_or_default(slice_from(buf, 1)))
         IN  IF v # <<>> THEN from_str_ok(v) ELSE None
    ELSE None

\* the `_ =>` arm of convert_header_value: the prefix classes
convert_prefixed(buf, s, c, e) ==
    IF starts_with(buf, HTTP_PREFIX)
    THEN get_header(s, from_utf8_or_default(slice_from(buf, Len(HTTP_PREFIX))))
    ELSE IF starts_with(buf, <<"$">>)
    THEN LET v == env_var(e, from_utf8_or_default(slice_from(buf, 1)))
         IN  IF IsSome(v) THEN from_str_ok(Unwrap(v)) ELSE None
    ELSE IF starts_with(buf, <<":">>)
    THEN LET v == append_value(c, <<>>, from_utf8_or_default(slice_from(buf, 1)))
         IN  IF v # <<>> THEN from_str_ok(v) ELSE None
    ELSE None

\* the PROXY_ADD_FORWARDED_TAG arm
proxy_add_x_forwarded_for(s, c) ==
    IF IsSome(c.remote_addr)
    THEN LET remote_addr == Unwrap(c.remote_addr)
             xff == get_header(s, HdrXForwardedFor)
             v == IF IsSome(xff)
                  THEN to_str_or_default(Unwrap(xff)) \o <<",", " ">> \o remote_addr
                  ELSE remote_addr
         IN  from_str_ok(v)
    ELSE None

\* the SCHEME_TAG arm testing the version's text instead of its presence
scheme_by_text(c) ==
    IF IsSome(c.tls_version) /\ Unwrap(c.tls_version) # <<>>
    THEN Some(SCHEME_HTTPS) ELSE Some(SCHEME_HTTP)

\* the SCHEME_TAG arm
scheme(c) ==
    IF IsSome(c.tls_version) THEN Some(SCHEME_HTTPS) ELSE Some(SCHEME_HTTP)

\* the UPSTREAM_ADDR_TAG arm without the is_empty test
upstream_addr_unchecked(c) == from_str_ok(c.upstream_address)

\* the UPSTREAM_ADDR_TAG arm
upstream_addr(c) ==
    IF c.upstream_address # <<>> THEN from_str_ok(c.upstream_address) ELSE None

\* convert_header_value(value, session, ctx)
convert_header_value(buf, s, c, e) ==
    CASE buf = HOST_TAG ->
           IF IsSome(get_host(s)) THEN from_str_ok(Unwrap(get_host(s))) ELSE None
      [] buf = SCHEME_TAG -> scheme(c)
      [] buf = HOST_NAME_TAG -> from_str_ok(get_hostname)
      [] buf = REMOTE_ADDR_TAG ->
           IF IsSome(c.remote_addr) THEN from_str_ok(Unwrap(c.remote_addr)) ELSE None
      [] buf = REMOTE_PORT_TAG ->
           IF IsSome(c.remote_port)
           THEN from_str_ok(to_string(Unwrap(c.remote_port))) ELSE None
      [] buf = SERVER_ADDR_TAG ->
           IF IsSome(c.server_addr) THEN from_str_ok(Unwrap(c.server_addr)) ELSE None
      [] buf = SERVER_PORT_TAG ->
           IF IsSome(c.server_port)
           THEN from_str_ok(to_string(Unwrap(c.server_port))) ELSE None
      [] buf = UPSTREAM_ADDR_TAG -> upstream_addr(c)
      [] buf = PROXY_ADD_FORWARDED_TAG -> proxy_add_x_forwarded_for(s, c)
      [] OTHER -> convert_prefixed(buf, s, c, e)

(***************************************************************************)
(* Inputs of the resolution check.                                         *)
(***************************************************************************)
Addr1 == <<"1","0",".","1",".","1",".","1">>
Addr2 == <<"1","0",".","1",".","1",".","2">>
Upstream1 == <<"1","0",".","1",".","1",".","3",":","4","1","2","3">>
Tls13 == <<"t","l","s","1",".","3">>
HostValue == <<"p","i","n","g","a","p",".","i","o">>
OriginValue == <<"h","t","t","p","s",":","/","/","g","i","t","h","u","b",".","c","o","m">>
XffValue == <<"1",".","1",".","1",".","1",",", " ","2",".","2",".","2",".","2">>
XffOpaque == <<"1",".","1",".","1",".","1", ObsText>>

EnvHome == <<"H","O","M","E">>
EnvHttpOrigin == <<"h","t","t","p","_","o","r","i","g","i","n">>
EnvHostname == <<"h","o","s","t","n","a","m","e">>
EnvHost == <<"h","o","s","t">>
EnvScheme == <<"s","c","h","e","m","e">>
EnvBad == <<"B","A","D">>
EnvNames == {EnvHome, EnvHttpOrigin, EnvHostname, EnvHost, EnvScheme, EnvBad}

\* every variable of the populated environment holds a value of its own
EnvValue(n) ==
    IF n = EnvBad THEN <<"x", Ctl>> ELSE <<"e","n","v",":">> \o n

Environments ==
    {[n \in EnvNames |-> None], [n \in EnvNames |-> Some(EnvValue(n))]}

ConfiguredValues ==
    ExactTags \cup
    { HTTP_PREFIX \o HdrOrigin,
      <<"$","h","t","t","p","_","O","r","i","g","i","n">>,
      HTTP_PREFIX \o <<"a","b","s","e","n","t">>,
      HTTP_PREFIX,
      <<"$">> \o EnvHome,
      <<"$">> \o EnvBad,
      <<"$","U","N","S","E","T">>,
      <<"$">>,
      <<":">> \o AttrConnectionId,
      <<":","u","n","s","e","t">>,
      <<":">>,
      <<"U","U","I","D">>,
      <<"h","o","s","t">>,
      <<"x","$","h","o","s","t">>,
      <<>> }

Sessions ==
    { s \in [HeaderNames -> {None, Some(HostValue), Some(OriginValue),
                             Some(XffValue), Some(XffOpaque)}] :
        /\ s[HdrHost] \in {None, Some(HostValue)}
        /\ s[HdrOrigin] \in {None, Some(OriginValue)}
        /\ s[HdrXForwardedFor] \in {None, Some(XffValue), Some(XffOpaque)} }

States ==
    [ tls_version : {None, Some(<<>>), Some(Tls13)},
      remote_addr : {None, Some(<<>>), Some(Addr1)},
      remote_port : {None, Some(6000)},
      server_addr : {None, Some(<<>>), Some(Addr2)},
      server_port : {None, Some(6001)},
      upstream_address : {<<>>, Upstream1},
      connection_id : {0, 102},
      location_processing : {0},
      location_accepted : {0} ]

ResolveInit ==
    /\ value \in ConfiguredValues
    /\ session \in Sessions
    /\ ctx \in States
    /\ env \in Environments
    /\ resolved = [done |-> FALSE, result |-> None]

ResolveIdle ==
    /\ value = <<>>
    /\ session = [n \in HeaderNames |-> None]
    /\ ctx = [tls_version |-> None, remote_addr |-> None, remote_port |-> None,
              server_addr |-> None, server_port |-> None,
              upstream_address |-> <<>>, connection_id |-> 0,
              location_processing |-> 0, location_accepted |-> 0]
    /\ env = [n \in EnvNames |-> None]
    /\ resolved = [done |-> FALSE, result |-> None]

\* one call of convert_header_value on the drawn inputs
ConvertHeaderValue ==
    /\ ~resolved.done
    /\ resolved' = [done |-> TRUE,
                    result |-> convert_header_value(value, session, ctx, env)]
    /\ UNCHANGED <<value, session, ctx, env>>

(***************************************************************************)
(* Plugin pipeline: Stats::handle_request (plugin/stats.rs) driven by the  *)
(* dispatch rule of the surrounding engine.                                *)
(***************************************************************************)
MaxPlugins == 3

\* PluginStep, in the order the engine runs the lifecycle steps
StepOrder == <<"Request", "ProxyUpstream", "Response">>
PluginStep == {StepOrder[i] : i \in 1..Len(StepOrder)}

RequestPaths == {"/stats", "/vicanso/pingap"}

\* Stats instances that construction lets through
StatsInstances ==
    [category : {"stats"}, plugin_step : {"Request", "ProxyUpstream"},
     path : {"/stats"}, behaviour : {"-"}]

\* plugins of the other categories: what they do at their own step
OtherInstances ==
    [category : {"other"}, plugin_step : PluginStep,
     path : {"-"}, behaviour : {"none", "response", "error"}]

PluginInstances == StatsInstances \cup OtherInstances

\* Stats::handle_request without the step check
stats_handle_request_ignores_step(p, st, path) ==
    IF path = p.path THEN "response" ELSE "none"

\* Stats::handle_request(step, session, ctx)
stats_handle_request(p, st, path) ==
    IF st # p.plugin_step THEN "none"
    ELSE IF path = p.path THEN "response"
    ELSE "none"

\* a plugin of another category: a no-op at a step it is not bound to
other_handle_request(p, st) ==
    IF st # p.plugin_step THEN "none" ELSE p.behaviour

\* Plugin::handle_request through the trait object
handle_request(p, st, path) ==
    IF p.category = "stats"
    THEN stats_handle_request(p, st, path)
    ELSE other_handle_request(p, st)

\* the dispatcher continues past a plugin that returned a response
after_plugin_ignores_response(r) ==
    CASE r = "error" -> "error" [] OTHER -> "running"

\* the dispatcher takes a failed plugin for one that returned nothing
after_plugin_swallows_error(r) ==
    CASE r = "response" -> "response" [] OTHER -> "running"

\* what the dispatcher does with a plugin's result: Some(response) ends the
\* request with that response, Err(e) ends it with the error (`?`), None
\* goes on to the next plugin
after_plugin(r) ==
    CASE r = "response" -> "response"
      [] r = "error" -> "error"
      [] OTHER -> "running"

PipelineInit ==
    /\ plugins \in UNION {[1..n -> PluginInstances] : n \in 0..MaxPlugins}
    /\ reqPath \in RequestPaths
    /\ step = 1
    /\ idx = 1
    /\ invoked = <<>>
    /\ outcome = "running"

PipelineIdle ==
    /\ plugins = <<>>
    /\ reqPath = "/stats"
    /\ step = 1
    /\ idx = 1
    /\ invoked = <<>>
    /\ outcome = "running"

\* the dispatcher invokes the next configured plugin with the current step
InvokePlugin ==
    /\ outcome = "running"
    /\ idx <= Len(plugins)
    /\ LET r == handle_request(plugins[idx], StepOrder[step], reqPath)
       IN  /\ invoked' = Append(invoked, [step |-> step, plugin |-> idx, result |-> r])
           /\ outcome' = after_plugin(r)
           /\ idx' = IF after_plugin(r) = "running" THEN idx + 1 ELSE idx
    /\ UNCHANGED <<plugins, reqPath, step>>

\* every plugin returned nothing: the engine proceeds to the next step
NextStep ==
    /\ outcome = "running"
    /\ idx > Len(plugins)
    /\ step < Len(StepOrder)
    /\ step' = step + 1
    /\ idx' = 1
    /\ UNCHANGED <<plugins, reqPath, invoked, outcome>>

\* the last step ended without a plugin response
Finish ==
    /\ outcome = "running"
    /\ idx > Len(plugins)
    /\ step = Len(StepOrder)
    /\ outcome' = "finished"
    /\ UNCHANGED <<plugins, reqPath, step, idx, invoked>>

(***************************************************************************)
(* cache/tiny.rs: TinyUfoCache forwards get and put to tinyufo::TinyUfo.   *)
(* The admission and eviction policy is the crate's, not this repository's:*)
(* a put may leave the key resident or not, and may evict any other entry. *)
(***************************************************************************)
MaxKeys == 2
MaxWeight == 3
MaxCapacity == 2

Keys == 1..MaxKeys
Weights == 1..MaxWeight

\* TinyUfo::put(key, data, weight): the resident maps it may leave behind
tinyufo_put(r, k, w) ==
    { n \in [Keys -> 0..MaxWeight] :
        /\ n[k] \in {0, w}
        /\ \A j \in Keys \ {k} : n[j] \in {0, r[j]} }

\* TinyUfo::get(key)
tinyufo_get(r, k) == r[k] > 0

\* new_tiny_ufo_cache(total_weight_limit, estimated_size)
CacheInit ==
    /\ total_weight_limit \in 1..MaxCapacity
    /\ resident = [k \in Keys |-> 0]
    /\ before = [k \in Keys |-> 0]
    /\ lastPut = [called |-> FALSE, key |-> 1, weight |-> 1, result |-> "Ok"]
    /\ lastGet = [called |-> FALSE, key |-> 1, found |-> FALSE]

CacheIdle ==
    /\ total_weight_limit = 1
    /\ resident = [k \in Keys |-> 0]
    /\ before = [k \in Keys |-> 0]
    /\ lastPut = [called |-> FALSE, key |-> 1, weight |-> 1, result |-> "Ok"]
    /\ lastGet = [called |-> FALSE, key |-> 1, found |-> FALSE]

\* HttpCacheStorage::put for TinyUfoCache: the crate's put, then Ok(())
Put ==
    \E k \in Keys, w \in Weights :
        /\ resident' \in tinyufo_put(resident, k, w)
        /\ before' = resident
        /\ lastPut' = [called |-> TRUE, key |-> k, weight |-> w, result |-> "Ok"]
        /\ UNCHANGED <<total_weight_limit, lastGet>>

\* HttpCacheStorage::get for TinyUfoCache
Get ==
    \E k \in Keys :
        /\ lastGet' = [called |-> TRUE, key |-> k, found |-> tinyufo_get(resident, k)]
        /\ UNCHANGED <<total_weight_limit, resident, before, lastPut>>

(***************************************************************************)
(* http_header.rs: convert_header and convert_headers.                     *)
(***************************************************************************)
MaxRawLen == 4
MaxLines == 3

\* char::is_whitespace, as str::trim uses it
is_whitespace(b) == b \in {" ", "\t", "\n", "\r"}

RECURSIVE trim_start(_)
trim_start(t) ==
    IF t # <<>> /\ is_whitespace(t[1]) THEN trim_start(Tail(t)) ELSE t

RECURSIVE trim_end(_)
trim_end(t) ==
    IF t # <<>> /\ is_whitespace(t[Len(t)])
    THEN trim_end(SubSeq(t, 1, Len(t) - 1)) ELSE t

\* str::trim
trim(t) == trim_end(trim_start(t))

\* the split position of rsplit_once(':'): the last colon, 0 when none
last_colon(t) ==
    IF \E i \in 1..Len(t) : t[i] = ":"
    THEN CHOOSE i \in 1..Len(t) :
            t[i] = ":" /\ \A j \in (i + 1)..Len(t) : t[j] # ":"
    ELSE 0

\* the split position of value.split_once(':'): the first colon, 0 when none
first_colon(t) ==
    IF \E i \in 1..Len(t) : t[i] = ":"
    THEN CHOOSE i \in 1..Len(t) : t[i] = ":" /\ \A j \in 1..(i - 1) : t[j] # ":"
    ELSE 0

\* the bytes HeaderName accepts (RFC 7230 token; the apostrophe and the
\* backquote, also token bytes, occur in no input and are left out)
TokenBytes ==
    {LowerCase[i] : i \in 1..26} \cup {UpperCase[i] : i \in 1..26}
    \cup {Digit(d) : d \in 0..9}
    \cup {"!", "#", "$", "%", "&", "*", "+", "-", ".", "^", "_", "|", "~"}

\* HeaderName::from_str(k).is_ok(): a non-empty token
header_name_ok(k) == k # <<>> /\ \A i \in 1..Len(k) : k[i] \in TokenBytes

\* the HeaderName that HeaderName::from_str(k) builds: k in lower case
header_name(k) == [i \in 1..Len(k) |-> ascii_lower(k[i])]

NoHeader == [kind |-> "none", name |-> <<>>, value |-> <<>>]

\* convert_header(value): Ok(None), Ok(Some((name, value))), or
\* Err(InvalidHeaderName { value }) / Err(InvalidHeaderValue { value })
convert_header(t) ==
    LET i == first_colon(t)
        k == trim(SubSeq(t, 1, i - 1))
        v == trim(SubSeq(t, i + 1, Len(t)))
    IN  IF i = 0 THEN NoHeader
        ELSE IF ~header_name_ok(k)
        THEN [kind |-> "InvalidHeaderName", name |-> <<>>, value |-> k]
        ELSE IF ~IsSome(from_str_ok(v))
        THEN [kind |-> "InvalidHeaderValue", name |-> <<>>, value |-> v]
        ELSE [kind |-> "pair", name |-> header_name(k), value |-> v]

RECURSIVE convert_headers_from(_, _, _)
\* the loop of convert_headers from line n on, arr being the pairs so far:
\* `?` returns the first error, a line that gave None is passed over
convert_headers_from(lines, n, arr) ==
    IF n > Len(lines) THEN [ok |-> TRUE, arr |-> arr, err |-> NoHeader]
    ELSE LET item == convert_header(lines[n])
         IN  IF item.kind \in {"InvalidHeaderName", "InvalidHeaderValue"}
             THEN [ok |-> FALSE, arr |-> <<>>, err |-> item]
             ELSE IF item.kind = "pair"
             THEN convert_headers_from(lines, n + 1, Append(arr, item))
             ELSE convert_headers_from(lines, n + 1, arr)

RECURSIVE convert_headers_pushing_front(_, _, _)
\* the loop of convert_headers with each pair inserted at the front
convert_headers_pushing_front(lines, n, arr) ==
    IF n > Len(lines) THEN [ok |-> TRUE, arr |-> arr, err |-> NoHeader]
    ELSE LET item == convert_header(lines[n])
         IN  IF item.kind \in {"InvalidHeaderName", "InvalidHeaderValue"}
             THEN [ok |-> FALSE, arr |-> <<>>, err |-> item]
             ELSE IF item.kind = "pair"
             THEN convert_headers_pushing_front(lines, n + 1, <<item>> \o arr)
             ELSE convert_headers_pushing_front(lines, n + 1, arr)

\* convert_headers(header_values) with the pairs collected in reverse
convert_headers_reversed(lines) == convert_headers_pushing_front(lines, 1, <<>>)

\* convert_headers(header_values)
convert_headers(lines) == convert_headers_from(lines, 1, <<>>)

RawBytes == {"a", "A", ":", " ", "@", Ctl}

RawStrings == UNION {[1..n -> RawBytes] : n \in 0..MaxRawLen}

\* directive lines of each kind: two well-formed, one without a colon, one
\* with an illegal name, one with an illegal value
SampleLines ==
    { <<"A", ":", " ", "a">>,
      <<"a", ":", "@", ":">>,
      <<"a", "a">>,
      <<"@", ":", "a">>,
      <<"a", ":", Ctl>> }

ParseIdle ==
    /\ raw = <<>>
    /\ parsed = [done |-> FALSE, result |-> NoHeader]
    /\ header_values = <<>>
    /\ converted = [done |-> FALSE,
                    result |-> [ok |-> TRUE, arr |-> <<>>, err |-> NoHeader]]

ParseInit ==
    /\ raw \in RawStrings
    /\ parsed = [done |-> FALSE, result |-> NoHeader]
    /\ header_values = <<>>
    /\ converted = [done |-> FALSE,
                    result |-> [ok |-> TRUE, arr |-> <<>>, err |-> NoHeader]]

BatchInit ==
    /\ raw = <<>>
    /\ parsed = [done |-> FALSE, result |-> NoHeader]
    /\ header_values \in UNION {[1..n -> SampleLines] : n \in 0..MaxLines}
    /\ converted = [done |-> FALSE,
                    result |-> [ok |-> TRUE, arr |-> <<>>, err |-> NoHeader]]

\* one call of convert_header
ConvertHeader ==
    /\ ~parsed.done
    /\ parsed' = [done |-> TRUE, result |-> convert_header(raw)]
    /\ UNCHANGED <<raw, header_values, converted>>

\* one call of convert_headers
ConvertHeaders ==
    /\ ~converted.done
    /\ converted' = [done |-> TRUE, result |-> convert_headers(header_values)]
    /\ UNCHANGED <<raw, parsed, header_values>>

(***************************************************************************)
(* plugin/stats.rs: construction of the plugin from its configuration and  *)
(* a handle_request call on the instance.                                  *)
(***************************************************************************)
MaxCount == 1

StatsConfs ==
    [step : {"omitted", "request", "proxy_upstream", "response"},
     path : {"omitted", "/stats"}]

\* get_step_conf(value): the step field, the default step when it is omitted
get_step_conf(cf) ==
    CASE cf.step = "request" -> "Request"
      [] cf.step = "proxy_upstream" -> "ProxyUpstream"
      [] cf.step = "response" -> "Response"
      [] OTHER -> "Request"

\* get_str_conf(value, "path")
get_str_conf_path(cf) == IF cf.path = "omitted" THEN "" ELSE cf.path

\* PluginCategory::Stats.to_string()
CategoryStats == "stats"

\* the message of the Error::Invalid that try_from returns, word by word
StatsStepMessage ==
    <<"Stats", "plugin", "should", "be", "executed", "at",
      "request", "or", "proxy", "upstream", "step">>

NoPlugin == [category |-> "-", plugin_step |-> "-", path |-> "-", behaviour |-> "-"]
NoError == [category |-> "-", message |-> <<>>]

\* Stats::try_from with the Response step let through as well
try_from_allows_response(cf) ==
    [state |-> "ok",
     plugin |-> [category |-> CategoryStats, plugin_step |-> get_step_conf(cf),
                 path |-> get_str_conf_path(cf), behaviour |-> "-"],
     error |-> NoError]

\* impl TryFrom<&PluginConf> for Stats
try_from(cf) ==
    LET params == [category |-> CategoryStats, plugin_step |-> get_step_conf(cf),
                   path |-> get_str_conf_path(cf), behaviour |-> "-"]
    IN  IF params.plugin_step \notin {"Request", "ProxyUpstream"}
        THEN [state |-> "err", plugin |-> NoPlugin,
              error |-> [category |-> CategoryStats, message |-> StatsStepMessage]]
        ELSE [state |-> "ok", plugin |-> params, error |-> NoError]

StatsCallPaths == RequestPaths \cup {"/stats/"}

NoCall ==
    [called |-> FALSE, step |-> "-", path |-> "-", result |-> "-",
     location_processing |-> 0, location_accepted |-> 0]

StatsIdle ==
    /\ conf = [step |-> "omitted", path |-> "omitted"]
    /\ stats = [state |-> "unbuilt", plugin |-> NoPlugin, error |-> NoError]
    /\ lastCall = NoCall

StatsInit ==
    /\ conf \in StatsConfs
    /\ stats = [state |-> "unbuilt", plugin |-> NoPlugin, error |-> NoError]
    /\ lastCall = NoCall

\* the State of the request the plugin is invoked for
StatsCtxInit ==
    /\ value = <<>>
    /\ session = [n \in HeaderNames |-> None]
    /\ ctx \in [tls_version : {None}, remote_addr : {None}, remote_port : {None},
                server_addr : {None}, server_port : {None},
                upstream_address : {<<>>}, connection_id : {0},
                location_processing : 0..MaxCount,
                location_accepted : 0..MaxCount]
    /\ env = [n \in EnvNames |-> None]
    /\ resolved = [done |-> FALSE, result |-> None]

\* Stats::new(params)
StatsNew ==
    /\ stats.state = "unbuilt"
    /\ stats' = try_from(conf)
    /\ UNCHANGED <<conf, lastCall, resolveVars>>

\* Stats::handle_request(step, session, ctx) on the built plugin: ctx is
\* read for the two location counters and never assigned
StatsHandleRequest ==
    /\ stats.state = "ok"
    /\ \E st \in PluginStep, path \in StatsCallPaths :
          lastCall' = [called |-> TRUE, step |-> st, path |-> path,
                       result |-> stats_handle_request(stats.plugin, st, path),
                       location_processing |-> ctx.location_processing,
                       location_accepted |-> ctx.location_accepted]
    /\ UNCHANGED <<conf, stats, resolveVars>>

(***************************************************************************)
(* Specifications.                                                         *)
(***************************************************************************)
Init == PipelineInit /\ ResolveIdle /\ CacheIdle /\ ParseIdle /\ StatsIdle

Next ==
    \/ InvokePlugin /\ UNCHANGED <<resolveVars, cacheVars, parseVars, statsVars>>
    \/ NextStep /\ UNCHANGED <<resolveVars, cacheVars, parseVars, statsVars>>
    \/ Finish /\ UNCHANGED <<resolveVars, cacheVars, parseVars, statsVars>>

Spec == Init /\ [][Next]_vars

InitResolve ==
    ResolveInit /\ PipelineIdle /\ CacheIdle /\ ParseIdle /\ StatsIdle

NextResolve ==
    ConvertHeaderValue /\ UNCHANGED <<pipelineVars, cacheVars, parseVars, statsVars>>

SpecResolve == InitResolve /\ [][NextResolve]_vars

InitCache ==
    CacheInit /\ PipelineIdle /\ ResolveIdle /\ ParseIdle /\ StatsIdle

NextCache ==
    \/ Put /\ UNCHANGED <<resolveVars, pipelineVars, parseVars, statsVars>>
    \/ Get /\ UNCHANGED <<resolveVars, pipelineVars, parseVars, statsVars>>

SpecCache == InitCache /\ [][NextCache]_vars

InitParse ==
    ParseInit /\ ResolveIdle /\ PipelineIdle /\ CacheIdle /\ StatsIdle

NextParse ==
    ConvertHeader /\ UNCHANGED <<resolveVars, pipelineVars, cacheVars, statsVars>>

SpecParse == InitParse /\ [][NextParse]_vars

InitBatch ==
    BatchInit /\ ResolveIdle /\ PipelineIdle /\ CacheIdle /\ StatsIdle

NextBatch ==
    ConvertHeaders /\ UNCHANGED <<resolveVars, pipelineVars, cacheVars, statsVars>>

SpecBatch == InitBatch /\ [][NextBatch]_vars

InitStats ==
    StatsInit /\ StatsCtxInit /\ PipelineIdle /\ CacheIdle /\ ParseIdle

NextStats ==
    \/ StatsNew /\ UNCHANGED <<pipelineVars, cacheVars, parseVars>>
    \/ StatsHandleRequest /\ UNCHANGED <<pipelineVars, cacheVars, parseVars>>

SpecStats == InitStats /\ [][NextStats]_vars

(***************************************************************************)
(* Properties of the plugin pipeline (specification Spec).                 *)
(***************************************************************************)
Last(q) == q[Len(q)]

\* C1: plugins are invoked in configured order, step by step; the first
\* plugin that returns a response ends the request with that response, so a
\* response is only ever the last handle_request call made for the request;
\* when every plugin of a step returned nothing the engine is handed control
\* with all of them invoked.
C1_FirstResponseStops ==
    /\ \A i \in 1..Len(invoked) :
          /\ invoked[i].step = ((i - 1) \div Len(plugins)) + 1
          /\ invoked[i].plugin = ((i - 1) % Len(plugins)) + 1
          /\ invoked[i].result = "response" => i = Len(invoked) /\ outcome = "response"
    /\ outcome = "response" => invoked # <<>> /\ Last(invoked).result = "response"
    /\ (outcome = "running" /\ idx > Len(plugins)) =>
          \A k \in 1..Len(plugins) :
             \E i \in 1..Len(invoked) :
                invoked[i] = [step |-> step, plugin |-> k, result |-> "none"]

\* three plugins bound to the executing step, the second answered, and the
\* third, which would have answered too, was never invoked
C1_Witness ==
    /\ Len(plugins) = 3
    /\ \A k \in 1..3 : plugins[k].plugin_step = StepOrder[step]
    /\ plugins[2].category = "stats"
    /\ plugins[3].behaviour = "response"
    /\ outcome = "response"
    /\ Last(invoked).plugin = 2
    /\ \A i \in 1..Len(invoked) : invoked[i].plugin # 3

\* C6: a failed handle_request is the last call made for the request and
\* the request ends as failed; it is never followed by another plugin.
C6_ErrorStops ==
    /\ \A i \in 1..Len(invoked) :
          invoked[i].result = "error" => i = Len(invoked) /\ outcome = "error"
    /\ outcome = "error" => invoked # <<>> /\ Last(invoked).result = "error"

\* a plugin failed while a later plugin bound to the same step was waiting
C6_Witness ==
    /\ outcome = "error"
    /\ idx < Len(plugins)
    /\ plugins[idx + 1].plugin_step = StepOrder[step]
    /\ plugins[idx + 1].behaviour = "response"
    /\ Last(invoked).plugin = idx

(***************************************************************************)
(* Properties of TinyUfoCache (specification SpecCache).                   *)
(***************************************************************************)
\* C3: a put whose weight alone exceeds the capacity reports a failure,
\* leaves the key not resident and the resident entries as they were.
C3_OversizedPutRejected ==
    (lastPut.called /\ lastPut.weight > total_weight_limit) =>
        /\ lastPut.result = "Err"
        /\ resident[lastPut.key] = 0
        /\ resident = before

(***************************************************************************)
(* Properties of convert_header_value (specification SpecResolve).         *)
(***************************************************************************)
IsLiteral(v) ==
    /\ v \notin ExactTags
    /\ ~starts_with(v, <<"$">>)
    /\ ~starts_with(v, <<":">>)

\* C7 as stated: a value that matches no tag and has no "$" or ":" prefix is
\* returned unchanged.
C7_LiteralReturnedUnchanged ==
    (resolved.done /\ IsLiteral(value)) => resolved.result = Some(value)

\* C7, amended: for a value that matches no tag and has no "$" or ":" prefix
\* convert_header_value returns None, whatever the request and the context.
C7_LiteralYieldsNone ==
    (resolved.done /\ IsLiteral(value)) => resolved.result = None

\* "UUID" was resolved and nothing came back
C7_Witness ==
    /\ resolved.done
    /\ value = <<"U","U","I","D">>
    /\ resolved.result = None

\* C8 as stated: "$scheme" is never omitted and is https exactly when the
\* context records a non-empty TLS version, http otherwise.
C8_SchemeByNonEmptyVersion ==
    (resolved.done /\ value = SCHEME_TAG) =>
        resolved.result =
            IF IsSome(ctx.tls_version) /\ Unwrap(ctx.tls_version) # <<>>
            THEN Some(SCHEME_HTTPS) ELSE Some(SCHEME_HTTP)

\* C8, amended: "$scheme" is never omitted and is https exactly when the
\* context records a TLS version (tls_version is Some, even of an empty
\* string), http otherwise.
C8_SchemeByVersionPresence ==
    (resolved.done /\ value = SCHEME_TAG) =>
        /\ ctx.tls_version # None => resolved.result = Some(SCHEME_HTTPS)
        /\ ctx.tls_version = None => resolved.result = Some(SCHEME_HTTP)

\* "$scheme" resolved under a recorded but empty TLS version: https
C8_Witness ==
    /\ resolved.done
    /\ value = SCHEME_TAG
    /\ ctx.tls_version = Some(<<>>)
    /\ resolved.result = Some(SCHEME_HTTPS)

\* C9: "$proxy_add_x_forwarded_for" is "E, R" when the remote address R is
\* known and the request carries X-Forwarded-For: E, is R when there is no
\* such header, and is omitted when the remote address is unknown.
C9_ForwardedForAppends ==
    (resolved.done /\ value = PROXY_ADD_FORWARDED_TAG) =>
        resolved.result =
            IF ctx.remote_addr = None THEN None
            ELSE IF session[HdrXForwardedFor] = None
            THEN Some(Unwrap(ctx.remote_addr))
            ELSE Some(Unwrap(session[HdrXForwardedFor]) \o <<",", " ">>
                      \o Unwrap(ctx.remote_addr))

\* C10: the classes are tried in the order exact tag, "$http_", "$", ":".
\* An exact tag is resolved by its own arm only ("$hostname" is the process
\* hostname, "$host" the request's host, neither an environment variable);
\* "$http_<name>" is the inbound header <name> verbatim or nothing, never
\* the environment variable http_<name>; any other "$<name>" comes from the
\* environment only and ":<name>" from the context only.
C10_Precedence ==
    LET r == resolved.result
        envValues == {env[n] : n \in EnvNames} \ {None}
    IN  resolved.done =>
          /\ value \in ExactTags => r \notin envValues
          /\ value = HOST_NAME_TAG => r = Some(get_hostname)
          /\ value = HOST_TAG => r = session[HdrHost]
          /\ (value \notin ExactTags /\ starts_with(value, HTTP_PREFIX)) =>
                r = get_header(session, slice_from(value, Len(HTTP_PREFIX)))
          /\ (value \notin ExactTags /\ starts_with(value, <<"$">>)
                /\ ~starts_with(value, HTTP_PREFIX)) =>
                r \in {None} \cup envValues
          /\ starts_with(value, <<":">>) =>
                r \in {None, Some(to_string(ctx.connection_id))}

\* "$http_origin" with no Origin header while the environment holds a
\* variable http_origin: the header is omitted
C10_Witness ==
    /\ resolved.done
    /\ value = HTTP_PREFIX \o HdrOrigin
    /\ session[HdrOrigin] = None
    /\ env[EnvHttpOrigin] # None
    /\ resolved.result = None

\* the decimal text of the numbers the contexts hold, written out
DecimalText(n) ==
    CASE n = 0 -> <<"0">>
      [] n = 102 -> <<"1","0","2">>
      [] n = 6000 -> <<"6","0","0","0">>
      [] n = 6001 -> <<"6","0","0","1">>

\* C11: "$remote_addr", "$remote_port", "$server_addr", "$server_port" and
\* "$upstream_addr" each yield their own context field when it is known and
\* nothing when it is unset (the upstream address: when it is empty); an
\* unset field never comes back as an empty value.
C11_FieldOrOmitted ==
    LET r == resolved.result
    IN  resolved.done =>
          /\ value = REMOTE_ADDR_TAG => r = ctx.remote_addr
          /\ value = SERVER_ADDR_TAG => r = ctx.server_addr
          /\ value = REMOTE_PORT_TAG =>
                r = IF ctx.remote_port = None THEN None
                    ELSE Some(DecimalText(Unwrap(ctx.remote_port)))
          /\ value = SERVER_PORT_TAG =>
                r = IF ctx.server_port = None THEN None
                    ELSE Some(DecimalText(Unwrap(ctx.server_port)))
          /\ value = UPSTREAM_ADDR_TAG =>
                r = IF ctx.upstream_address = <<>> THEN None
                    ELSE Some(ctx.upstream_address)

\* "$upstream_addr" resolved before an upstream was chosen, while every
\* other connection field is known: the header is omitted
C11_Witness ==
    /\ resolved.done
    /\ value = UPSTREAM_ADDR_TAG
    /\ ctx.upstream_address = <<>>
    /\ ctx.remote_addr = Some(Addr1)
    /\ ctx.server_addr = Some(Addr2)
    /\ resolved.result = None

\* C12: ":<name>" is a lookup of the context attribute <name>: its value as
\* text when the context holds it (":connection_id" with connection_id 102
\* is "102"), nothing when the attribute is absent or renders empty.
C12_AttributeLookup ==
    (resolved.done /\ starts_with(value, <<":">>)) =>
        resolved.result =
            IF slice_from(value, 1) = AttrConnectionId
            THEN Some(DecimalText(ctx.connection_id))
            ELSE None

\* ":connection_id" resolved on connection 102
C12_Witness ==
    /\ resolved.done
    /\ value = <<":">> \o AttrConnectionId
    /\ ctx.connection_id = 102
    /\ resolved.result = Some(<<"1","0","2">>)

(***************************************************************************)
(* Properties of convert_header (specification SpecParse) and of           *)
(* convert_headers (specification SpecBatch).                              *)
(***************************************************************************)
\* C13: a raw string without a colon gives nothing and no error; a string
\* with a colon is split at its first colon only (later colons stay in the
\* value), both halves are trimmed, and the result is the pair when the
\* name is a legal header name and the value a legal header value,
\* otherwise an error carrying the offending name or the offending value.
C13_SplitTrimValidate ==
    parsed.done =>
        LET r == parsed.result
            colons == {i \in 1..Len(raw) : raw[i] = ":"}
        IN  IF colons = {}
            THEN r.kind = "none"
            ELSE \E i \in colons :
                    /\ \A j \in colons : i <= j
                    /\ LET k == trim(SubSeq(raw, 1, i - 1))
                           v == trim(SubSeq(raw, i + 1, Len(raw)))
                           name_legal ==
                               k # <<>> /\ \A n \in 1..Len(k) : k[n] \in TokenBytes
                           value_legal == \A n \in 1..Len(v) : is_valid(v[n])
                       IN  /\ ~name_legal =>
                                r.kind = "InvalidHeaderName" /\ r.value = k
                           /\ (name_legal /\ ~value_legal) =>
                                r.kind = "InvalidHeaderValue" /\ r.value = v
                           /\ (name_legal /\ value_legal) =>
                                /\ r.kind = "pair"
                                /\ r.value = v
                                /\ r.name = [n \in 1..Len(k) |-> ascii_lower(k[n])]

\* "A: :" parsed: the name is "a", the value is the second colon, the
\* blank between them is trimmed away
C13_Witness ==
    /\ parsed.done
    /\ raw = <<"A", ":", " ", ":">>
    /\ parsed.result = [kind |-> "pair", name |-> <<"a">>, value |-> <<":">>]

\* the results of convert_header on each line, in input order
ParsedLines(lines) == [n \in 1..Len(lines) |-> convert_header(lines[n])]

IsPair(h) == h.kind = "pair"

\* C14 as stated: every batch returns, without failing, the pairs of its
\* well-formed lines in input order, every other line being filtered out.
C14_MalformedFiltered ==
    converted.done =>
        /\ converted.result.ok
        /\ converted.result.arr = SelectSeq(ParsedLines(header_values), IsPair)

\* C14: convert_headers applies convert_header to each line; lines without
\* a colon are passed over and the pairs are returned in input order,
\* nothing added, duplicated or reordered, unless some line has an illegal
\* name or value: then the call fails with the error of the first such
\* line and returns no pairs.
C14_SkipsColonlessFailsOnIllegal ==
    converted.done =>
        LET items == ParsedLines(header_values)
            bad == {n \in 1..Len(items) :
                       items[n].kind \in {"InvalidHeaderName", "InvalidHeaderValue"}}
        IN  IF bad = {}
            THEN /\ converted.result.ok
                 /\ converted.result.arr = SelectSeq(items, IsPair)
            ELSE /\ ~converted.result.ok
                 /\ converted.result.arr = <<>>
                 /\ \E n \in bad :
                       /\ \A m \in bad : n <= m
                       /\ converted.result.err = items[n]

\* two well-formed lines around a line without a colon: two pairs, in the
\* order of their lines
C14_Witness ==
    /\ converted.done
    /\ header_values = << <<"a", ":", "@", ":">>, <<"a", "a">>, <<"A", ":", " ", "a">> >>
    /\ converted.result.ok
    /\ converted.result.arr =
          << [kind |-> "pair", name |-> <<"a">>, value |-> <<"@", ":">>],
             [kind |-> "pair", name |-> <<"a">>, value |-> <<"a">>] >>

(***************************************************************************)
(* Properties of the Stats plugin (specification SpecStats).               *)
(***************************************************************************)
\* the steps the configuration allows, the omitted step being the default
StepAllowed == conf.step \in {"omitted", "request", "proxy_upstream"}

\* the words by which a message would name a step
StepWords(s) ==
    CASE s = "response" -> {"response", "Response"}
      [] s = "request" -> {"request", "Request"}
      [] s = "proxy_upstream" -> {"proxy_upstream", "ProxyUpstream"}
      [] OTHER -> {}

\* C15 as stated: construction succeeds iff the step is Request or
\* ProxyUpstream; a rejection produces no instance and its error names the
\* plugin category and the step that was refused.
C15_ErrorNamesInvalidStep ==
    stats.state # "unbuilt" =>
        /\ stats.state = "ok" <=> StepAllowed
        /\ stats.state = "err" =>
              /\ stats.plugin = NoPlugin
              /\ stats.error.category = CategoryStats
              /\ \E i \in 1..Len(stats.error.message) :
                    stats.error.message[i] \in StepWords(conf.step)

\* C15: construction succeeds iff the configured step (Request when the
\* step is omitted) is Request or ProxyUpstream; any other step is
\* rejected, no instance is produced, and the error carries the plugin
\* category and a fixed message that names the two allowed steps, not the
\* step that was refused.
C15_RejectedWithAllowedSteps ==
    stats.state # "unbuilt" =>
        /\ stats.state = "ok" <=> StepAllowed
        /\ stats.state = "ok" =>
              /\ stats.error = NoError
              /\ stats.plugin.plugin_step =
                    (IF conf.step = "proxy_upstream"
                     THEN "ProxyUpstream" ELSE "Request")
        /\ stats.state = "err" =>
              /\ stats.plugin = NoPlugin
              /\ stats.error.category = "stats"
              /\ stats.error.message =
                    <<"Stats", "plugin", "should", "be", "executed", "at",
                      "request", "or", "proxy", "upstream", "step">>
              /\ \A i \in 1..Len(stats.error.message) :
                    stats.error.message[i] \notin StepWords(conf.step)

\* a configuration with step = "response" and path = "/stats", refused
C15_Witness ==
    /\ conf = [step |-> "response", path |-> "/stats"]
    /\ stats.state = "err"
    /\ stats.plugin = NoPlugin
    /\ stats.error.category = "stats"

\* C16: handle_request answers with a response iff the step of the call is
\* the plugin's step and the request path is exactly the plugin's path; at
\* any other step it returns nothing even when the path matches; it never
\* returns an error and the context after the call is the context the call
\* read.
C16_RespondsOnlyAtOwnStepAndPath ==
    lastCall.called =>
        /\ lastCall.result \in {"none", "response"}
        /\ lastCall.result = "response" <=>
              /\ lastCall.step = stats.plugin.plugin_step
              /\ lastCall.path = stats.plugin.path
        /\ ctx.location_processing = lastCall.location_processing
        /\ ctx.location_accepted = lastCall.location_accepted

\* a plugin bound to Request with path "/stats", called at ProxyUpstream
\* for "/stats" on a location that has accepted a request: nothing
C16_Witness ==
    /\ lastCall.called
    /\ stats.plugin.plugin_step = "Request"
    /\ stats.plugin.path = "/stats"
    /\ lastCall.step = "ProxyUpstream"
    /\ lastCall.path = "/stats"
    /\ lastCall.result = "none"
    /\ ctx.location_accepted = 1

====
